---- MODULE Spec2Model ----
(***************************************************************************)
(* Round engine of the Aeroflow flight-turnaround simulation               *)
(* (src/.streamlit/aeroflow_app.py): the session state, the decision       *)
(* handler (tab_play's submit guard and record), the timeline builder,     *)
(* the time-fine computation and the two instructor controls.              *)
(*                                                                         *)
(* Rounds are indexed as in the source: idx in 0..ROUNDS-1 is the row of   *)
(* the data frames and of the events and timeline lists, the round pointer *)
(* st.session_state.round runs over 1..ROUNDS.                             *)
(***************************************************************************)
EXTENDS Integers, Sequences, FiniteSets, TLC

VARIABLES
    data,       \* st.session_state.data: role -> idx -> ledger row
    events,     \* st.session_state.events: idx -> <<text, delay>>
    timeline,   \* st.session_state.timeline: idx -> None or the board
    round,      \* st.session_state.round
    role_pick,  \* st.session_state.role_pick
    last,       \* the handler that ran last and whether it wrote a decision
    detours     \* risky options picked and "Next Flight" presses since the
                \* state was initialised

vars == <<data, events, timeline, round, role_pick, last, detours>>

----------------------------------------------------------------------------
(* CONFIG, lines 5-31 *)

ROLES == <<"Airport Operations", "Airline Control Center", "Aircraft Maintenance">>
ROUNDS == 5
TARGET_MIN == 45
FINE_PER_MIN == 100

GATE_PVT == 10
GATE_SHR == 10
CREW_NB == 30
CREW_B10 == 40
MX_FIX == 20
MX_DEF == 0

GATE_FEE == 500
MX_FIX_COST == 300
MX_PENALTY == 1000

EVENT_CARDS ==
    << <<"Wildlife on the runway - bird hazard.", 8>>,
       <<"Fuel truck stuck in traffic - stand blocked.", 12>>,
       <<"Half the ramp crew called in sick - slow loading.", 9>>,
       <<"Snow squall - extra de-icing.", 15>>,
       <<"Baggage belt jam - bags everywhere.", 7>>,
       <<"Gate power outage - stand dark.", 10>>,
       <<"Catering cart spills tomato soup on luggage.", 6>>,
       <<"Lightning overhead - ground ops paused.", 11>> >>

----------------------------------------------------------------------------
(* Bounds of the exploration *)

\* departures from the plain game in one game: picks of a risky option
\* (Shared, Quick, Defer), presses of "Next Flight", and labels passed to
\* record that the role's radio does not offer
MaxDetours == 1
\* random.randint(lo, hi) is explored on the MaxDraw smallest and the MaxDraw
\* largest values of lo..hi
MaxDraw == 1
\* random.sample is explored on the samples that take ROUNDS consecutive
\* cards of the deck (cyclically), starting after 0..MaxOffset cards
MaxOffset == 1

----------------------------------------------------------------------------
(* Helpers *)

RoleSet == {ROLES[i] : i \in 1..Len(ROLES)}
Rows == 0..(ROUNDS - 1)
None == <<>>

Min(a, b) == IF a <= b THEN a ELSE b
Max(a, b) == IF a >= b THEN a ELSE b

\* Python's  kw in choice  on strings
Contains(choice, kw) ==
    \E i \in 1..(Len(choice) - Len(kw) + 1) :
        SubSeq(choice, i, i + Len(kw) - 1) = kw

\* randint with both ends off by one
randint_wide(lo, hi) == {lo - 1, hi + 1}

\* values of random.randint(lo, hi) that are explored
randint(lo, hi) ==
    {n \in lo..hi : n - lo < MaxDraw \/ hi - n < MaxDraw}

\* a sample drawn with replacement: the same card for every round
sample_repeat ==
    {[idx \in Rows |-> EVENT_CARDS[o + 1]] : o \in 0..MaxOffset}

\* values of random.sample(EVENT_CARDS, ROUNDS) that are explored: ROUNDS
\* cards at pairwise distinct deck positions
sample ==
    {[idx \in Rows |-> EVENT_CARDS[p[idx]]] :
        p \in {q \in [Rows -> 1..Len(EVENT_CARDS)] :
                 /\ \E o \in 0..MaxOffset : \A i \in Rows :
                        q[i] = ((o + i) % Len(EVENT_CARDS)) + 1
                 /\ \A i, j \in Rows : i # j => q[i] # q[j]}}

BlankRow == [Decision |-> "-", Duration |-> 0, Cost |-> 0, Notes |-> ""]

----------------------------------------------------------------------------
(* STATE, lines 36-51 *)

init_state ==
    /\ data = [r \in RoleSet |-> [idx \in Rows |-> BlankRow]]
    /\ events \in sample
    /\ timeline = [idx \in Rows |-> None]
    /\ round = 1
    /\ role_pick = ROLES[1]

Init ==
    /\ init_state
    /\ last = [op |-> "init", ok |-> TRUE]
    /\ detours = 0

----------------------------------------------------------------------------
(* LOGIC, lines 53-123 *)

\* any() in place of all()
everyone_done_any(D, idx) ==
    \E r \in RoleSet : D[r][idx].Decision # "-"

everyone_done(D, idx) ==
    \A r \in RoleSet : D[r][idx].Decision # "-"

\* df["End"].max()
BoardEnd(board) ==
    CHOOSE e \in {board[k].End : k \in DOMAIN board} :
        \A k \in DOMAIN board : board[k].End <= e

\* build_timeline with the delay added for every role
build_timeline_delay_all(D, idx) ==
    LET delay == events[idx][2]
        start[k \in 0..Len(ROLES)] ==
            IF k = 0 THEN 0
            ELSE start[k - 1] + D[ROLES[k]][idx].Duration + delay
    IN  [k \in 1..Len(ROLES) |->
            [Role |-> ROLES[k], Start |-> start[k - 1], End |-> start[k]]]

\* build_timeline without  start = end : every row starts at 0
build_timeline_no_carry(D, idx) ==
    LET delay == events[idx][2]
        dur(k) == D[ROLES[k]][idx].Duration
                    + (IF ROLES[k] = ROLES[1] THEN delay ELSE 0)
    IN  [k \in 1..Len(ROLES) |->
            [Role |-> ROLES[k], Start |-> 0, End |-> dur(k)]]

build_timeline(D, idx) ==
    LET delay == events[idx][2]
        \* the value of  start  after k passes of the loop
        start[k \in 0..Len(ROLES)] ==
            IF k = 0 THEN 0
            ELSE start[k - 1] + D[ROLES[k]][idx].Duration
                   + (IF ROLES[k] = ROLES[1] THEN delay ELSE 0)
    IN  [k \in 1..Len(ROLES) |->
            [Role |-> ROLES[k], Start |-> start[k - 1], End |-> start[k]]]

\* outcome with the note of a deferral written only with the penalty
outcome_no_note(role, choice, rnd) ==
    IF role = ROLES[1] THEN
        IF Contains(choice, "Dedicated")
        THEN [Decision |-> choice, Duration |-> GATE_PVT, Cost |-> GATE_FEE,
              Notes |-> "Reserved stand"]
        ELSE [Decision |-> choice,
              Duration |-> GATE_SHR + (IF rnd.hit THEN rnd.extra ELSE 0),
              Cost |-> 0,
              Notes |-> "Shared stand" \o
                  (IF rnd.hit THEN " +" \o ToString(rnd.extra) \o " wait" ELSE "")]
    ELSE IF role = ROLES[2] THEN
        IF Contains(choice, "Quick")
        THEN [Decision |-> choice,
              Duration |-> CREW_NB + (IF rnd.hit THEN rnd.extra ELSE 0),
              Cost |-> 0,
              Notes |-> "Quick swap" \o
                  (IF rnd.hit THEN " +" \o ToString(rnd.extra) ELSE "")]
        ELSE [Decision |-> choice, Duration |-> CREW_B10, Cost |-> 0,
              Notes |-> "Buffered swap"]
    ELSE
        IF Contains(choice, "Fix Now")
        THEN [Decision |-> choice, Duration |-> MX_FIX, Cost |-> MX_FIX_COST,
              Notes |-> "Immediate fix"]
        ELSE [Decision |-> choice, Duration |-> MX_DEF,
              Cost |-> 0 + (IF rnd.hit THEN MX_PENALTY ELSE 0),
              Notes |-> IF rnd.hit THEN "Deferred penalty 1000" ELSE ""]

\* the (dur, cost, note) a branch of record computes; rnd holds what the
\* branch draws from random
outcome(role, choice, rnd) ==
    IF role = ROLES[1] THEN
        IF Contains(choice, "Dedicated")
        THEN [Decision |-> choice, Duration |-> GATE_PVT, Cost |-> GATE_FEE,
              Notes |-> "Reserved stand"]
        ELSE [Decision |-> choice,
              Duration |-> GATE_SHR + (IF rnd.hit THEN rnd.extra ELSE 0),
              Cost |-> 0,
              Notes |-> "Shared stand" \o
                  (IF rnd.hit THEN " +" \o ToString(rnd.extra) \o " wait" ELSE "")]
    ELSE IF role = ROLES[2] THEN
        IF Contains(choice, "Quick")
        THEN [Decision |-> choice,
              Duration |-> CREW_NB + (IF rnd.hit THEN rnd.extra ELSE 0),
              Cost |-> 0,
              Notes |-> "Quick swap" \o
                  (IF rnd.hit THEN " +" \o ToString(rnd.extra) ELSE "")]
        ELSE [Decision |-> choice, Duration |-> CREW_B10, Cost |-> 0,
              Notes |-> "Buffered swap"]
    ELSE
        IF Contains(choice, "Fix Now")
        THEN [Decision |-> choice, Duration |-> MX_FIX, Cost |-> MX_FIX_COST,
              Notes |-> "Immediate fix"]
        ELSE [Decision |-> choice, Duration |-> MX_DEF,
              Cost |-> 0 + (IF rnd.hit THEN MX_PENALTY ELSE 0),
              Notes |-> "Deferred" \o (IF rnd.hit THEN " penalty 1000" ELSE "")]

\* the branch of record that draws from random
risky(role, choice) ==
    IF role = ROLES[1] THEN ~Contains(choice, "Dedicated")
    ELSE IF role = ROLES[2] THEN Contains(choice, "Quick")
    ELSE ~Contains(choice, "Fix Now")

\* what the branch can draw: random.randint(5,20) and random.random()<0.5,
\* random.randint(5,25) and random.random()<0.4, random.random()<MX_PEN_PROB
draws(role, choice) ==
    IF ~risky(role, choice) THEN {[extra |-> 0, hit |-> FALSE]}
    ELSE IF role = ROLES[1]
        THEN {[extra |-> e, hit |-> h] : e \in randint(5, 20), h \in BOOLEAN}
    ELSE IF role = ROLES[2]
        THEN {[extra |-> e, hit |-> h] : e \in randint(5, 25), h \in BOOLEAN}
    ELSE {[extra |-> 0, hit |-> h] : h \in BOOLEAN}

\* record that builds the board after every write
record_eager(role, idx, choice, rnd) ==
    LET D == [data EXCEPT ![role][idx] = outcome(role, choice, rnd)]
    IN  /\ data' = D
        /\ timeline' = [timeline EXCEPT ![idx] = build_timeline(D, idx)]
        /\ IF everyone_done(D, idx)
           THEN /\ round' = Min(idx + 2, ROUNDS)
                /\ role_pick' = ROLES[1]
           ELSE /\ UNCHANGED round
                /\ role_pick' = role

\* record with the pointer set to idx + 1
record_stay(role, idx, choice, rnd) ==
    LET D == [data EXCEPT ![role][idx] = outcome(role, choice, rnd)]
    IN  /\ data' = D
        /\ IF everyone_done(D, idx)
           THEN /\ timeline' = [timeline EXCEPT ![idx] = build_timeline(D, idx)]
                /\ round' = Min(idx + 1, ROUNDS)
                /\ role_pick' = ROLES[1]
           ELSE /\ UNCHANGED <<timeline, round>>
                /\ role_pick' = role

\* role_pick holds role when record is entered (line 194)
record(role, idx, choice, rnd) ==
    LET D == [data EXCEPT ![role][idx] = outcome(role, choice, rnd)]
    IN  /\ data' = D
        /\ IF everyone_done(D, idx)
           THEN /\ timeline' = [timeline EXCEPT ![idx] = build_timeline(D, idx)]
                /\ round' = Min(idx + 2, ROUNDS)
                /\ role_pick' = ROLES[1]
           ELSE /\ UNCHANGED <<timeline, round>>
                /\ role_pick' = role

RECURSIVE fines_loop(_, _)
fines_loop(i, upto) ==
    IF i >= upto THEN 0
    ELSE IF timeline[i] = None THEN 0
    ELSE Max(BoardEnd(timeline[i]) - TARGET_MIN, 0) * FINE_PER_MIN
           + fines_loop(i + 1, upto)

\* compute_time_fines with range(last - 1)
compute_time_fines_short(upto) == fines_loop(0, upto - 1)

\* compute_time_fines(upto); upto=None is upto = len(timeline)
compute_time_fines(upto) == fines_loop(0, upto)

option_labels(role) ==
    IF role = ROLES[1] THEN
        {"AODB: Dedicated Stand ($500 - gate always available)",
         "AODB: Shared Stand (free - 50 % risk +5-20 min)"}
    ELSE IF role = ROLES[2] THEN
        {"CRS: Quick Crew Swap (30 min - 40 % risk +5-25 min)",
         "CRS: Buffered Crew Swap (40 min - guaranteed on-time)"}
    ELSE
        {"MEL: Fix Now (+20 min, $300)",
         "MEL: Defer (0 min - 40 % risk $1,000)"}

----------------------------------------------------------------------------
(* PLAY TAB, lines 158-235 *)

finished == \A idx \in Rows : timeline[idx] # None

\* the "Time Fines" metric, lines 173-188
time_fines_kpi ==
    IF finished THEN compute_time_fines(ROUNDS)
    ELSE compute_time_fines(round - 1)

\* a submission that counts against MaxDetours: a risky option, or a label
\* that the role's radio does not offer
detour(role, choice) ==
    risky(role, choice) \/ choice \notin option_labels(role)

\* the submit guard left out
undecided_always(role) == TRUE

\* line 199: the row of the selected role in the active round is open
undecided(role) == data[role][round - 1].Decision = "-"

\* lines 192-205: the role is selected, and the decision is recorded when the
\* role has none in the active round; st.session_state.data[role] raises
\* KeyError for an unknown role
submit_decision(role, choice) ==
    IF role \notin RoleSet THEN
        /\ last' = [op |-> "submit", ok |-> FALSE]
        /\ UNCHANGED <<data, events, timeline, round, role_pick, detours>>
    ELSE IF undecided(role) THEN
        /\ detour(role, choice) => detours < MaxDetours
        /\ detours' = detours + (IF detour(role, choice) THEN 1 ELSE 0)
        /\ \E rnd \in draws(role, choice) : record(role, round - 1, choice, rnd)
        /\ last' = [op |-> "submit", ok |-> TRUE]
        /\ UNCHANGED events
    ELSE
        /\ role_pick' = role
        /\ last' = [op |-> "submit", ok |-> FALSE]
        /\ UNCHANGED <<data, events, timeline, round, detours>>

\* the selectbox and the radio offer the roles and the role's two labels
Submit ==
    \E role \in RoleSet : \E choice \in option_labels(role) :
        submit_decision(role, choice)

\* Next Flight that steps the pointer back
NextFlight_back ==
    /\ detours < MaxDetours
    /\ detours' = detours + 1
    /\ round' = Max(round - 1, 1)
    /\ role_pick' = ROLES[1]
    /\ last' = [op |-> "next", ok |-> TRUE]
    /\ UNCHANGED <<data, events, timeline>>

\* Next Flight offered only once the active round is complete
NextFlight_guarded ==
    /\ everyone_done(data, round - 1)
    /\ detours < MaxDetours
    /\ detours' = detours + 1
    /\ round' = Min(round + 1, ROUNDS)
    /\ role_pick' = ROLES[1]
    /\ last' = [op |-> "next", ok |-> TRUE]
    /\ UNCHANGED <<data, events, timeline>>

\* lines 220-223
NextFlight ==
    /\ detours < MaxDetours
    /\ detours' = detours + 1
    /\ round' = Min(round + 1, ROUNDS)
    /\ role_pick' = ROLES[1]
    /\ last' = [op |-> "next", ok |-> TRUE]
    /\ UNCHANGED <<data, events, timeline>>

\* lines 224-226: every key is deleted and the rerun runs init_state
ResetGame ==
    /\ data' = [r \in RoleSet |-> [idx \in Rows |-> BlankRow]]
    /\ events' \in sample
    /\ timeline' = [idx \in Rows |-> None]
    /\ round' = 1
    /\ role_pick' = ROLES[1]
    /\ last' = [op |-> "reset", ok |-> TRUE]
    /\ detours' = 0

Next == Submit \/ NextFlight \/ ResetGame

Spec == Init /\ [][Next]_vars

\* a role whose row in the active round is open submits one of its options
Accept ==
    \E role \in RoleSet :
        /\ undecided(role)
        /\ \E choice \in option_labels(role) : submit_decision(role, choice)

\* while some role has no decision in the active round, one of them
\* eventually submits
SpecFair ==
    /\ Init
    /\ [][Next]_vars
    /\ WF_vars(Accept)

\* record reached with a role and a choice that the widgets do not offer: the
\* caller passes any role name and any label
AnyRole == RoleSet \cup {"Ground Handling"}
AnyChoice ==
    UNION {option_labels(r) : r \in RoleSet} \cup {"Cancel the flight"}

SubmitAny ==
    \E role \in AnyRole : \E choice \in AnyChoice :
        submit_decision(role, choice)

NextApi == SubmitAny \/ NextFlight \/ ResetGame

SpecApi == Init /\ [][NextApi]_vars

----------------------------------------------------------------------------
(* Properties *)

AO == ROLES[1]
AC == ROLES[2]
MX == ROLES[3]

decided(r, idx) == data[r][idx].Decision # "-"
complete(idx) == \A r \in RoleSet : decided(r, idx)
blank(idx) == \A r \in RoleSet : data[r][idx] = BlankRow

RECURSIVE SumTo(_, _)
SumTo(f, n) == IF n < 0 THEN 0 ELSE f[n] + SumTo(f, n - 1)

\* the three roles' recorded durations of a row, and its direct costs
RowDuration(idx) ==
    data[AO][idx].Duration + data[AC][idx].Duration + data[MX][idx].Duration
RowCost(idx) ==
    data[AO][idx].Cost + data[AC][idx].Cost + data[MX][idx].Cost
TeamCost == SumTo([idx \in Rows |-> RowCost(idx)], ROUNDS - 1)

\* C1: every computed board has exactly three entries, in the order Airport
\* Operations, Airline Control, Aircraft Maintenance; the first starts at 0,
\* each next one starts where the previous one ends, and none ends before it
\* starts.
C1_Contiguous ==
    \A idx \in Rows : timeline[idx] # None =>
        /\ DOMAIN timeline[idx] = 1..3
        /\ \A k \in 1..3 : timeline[idx][k].Role = ROLES[k]
        /\ timeline[idx][1].Start = 0
        /\ \A k \in 1..2 : timeline[idx][k + 1].Start = timeline[idx][k].End
        /\ \A k \in 1..3 : timeline[idx][k].Start <= timeline[idx][k].End

\* a risk has struck in the row: a stand clash, a late crew or an audit penalty
struck(idx) ==
    \E r \in RoleSet :
        Contains(data[r][idx].Notes, "+") \/ Contains(data[r][idx].Notes, "penalty")

\* a board computed from a row in which a risk has struck
C1_Witness ==
    \E idx \in Rows : timeline[idx] # None /\ struck(idx)

\* C2: the last entry of every computed board ends at the sum of the three
\* roles' recorded durations of that round plus the round's event delay, and
\* the delay lies in the Airport Operations entry only: that entry is as long
\* as the role's duration plus the delay, the two others as long as their
\* role's duration.
C2_FinalEnd ==
    \A idx \in Rows : timeline[idx] # None =>
        LET b == timeline[idx]
            len(k) == b[k].End - b[k].Start
        IN  /\ b[3].End = RowDuration(idx) + events[idx][2]
            /\ len(1) = data[AO][idx].Duration + events[idx][2]
            /\ len(2) = data[AC][idx].Duration
            /\ len(3) = data[MX][idx].Duration

\* two boards, one of them from a round whose Airline Control was late
C2_Witness ==
    /\ timeline[0] # None
    /\ timeline[1] # None
    /\ \E idx \in {0, 1} : Contains(data[AC][idx].Notes, "+")

\* the fine the claim gives a round that ends at minute e
ClaimedFine(e) == IF e <= 45 THEN 0 ELSE (e - 45) * 100

\* C3: while rounds 1..i+1 all have a board, the fine the code adds for round
\* i+1 is 0 when the round ends by minute 45 and (end - 45) * 100 otherwise,
\* and never negative; at game over the reported total is the sum of these
\* fines over all ROUNDS rounds.
C3_Fines ==
    /\ \A i \in Rows :
        (\A j \in 0..i : timeline[j] # None) =>
            LET fine == compute_time_fines(i + 1) - compute_time_fines(i)
            IN  /\ fine = ClaimedFine(BoardEnd(timeline[i]))
                /\ fine >= 0
    /\ finished =>
        time_fines_kpi =
            SumTo([i \in Rows |-> ClaimedFine(BoardEnd(timeline[i]))], ROUNDS - 1)

\* game over, with a round that a risk made longer
C3_Witness ==
    /\ finished
    /\ \E idx \in Rows : struck(idx) /\ data[MX][idx].Cost # MX_PENALTY

Dedicated == "AODB: Dedicated Stand ($500 - gate always available)"
Buffered == "CRS: Buffered Crew Swap (40 min - guaranteed on-time)"
FixNow == "MEL: Fix Now (+20 min, $300)"

\* round 1 carries the delay 8 and holds Dedicated, Buffered and Fix Now
C4_Scenario ==
    /\ events[0][2] = 8
    /\ data[AO][0].Decision = Dedicated
    /\ data[AC][0].Decision = Buffered
    /\ data[MX][0].Decision = FixNow

\* the third of these submissions has just been accepted
C4_JustDone ==
    /\ C4_Scenario
    /\ last = [op |-> "submit", ok |-> TRUE]
    /\ \A idx \in 1..(ROUNDS - 1) : blank(idx)

\* C4: with delay 8 in round 1 and Dedicated, Buffered and Fix Now recorded
\* there, the records hold (10, 500), (40, 0) and (20, 300), the board is
\* [0, 18], [18, 58], [58, 78], the round's fine is 3300 and its direct cost
\* 800; right after the third submission the team's direct cost is 800 and the
\* round pointer is 2.
C4_EndToEnd ==
    /\ C4_Scenario =>
        /\ data[AO][0].Duration = 10 /\ data[AO][0].Cost = 500
        /\ data[AC][0].Duration = 40 /\ data[AC][0].Cost = 0
        /\ data[MX][0].Duration = 20 /\ data[MX][0].Cost = 300
        /\ timeline[0] =
              << [Role |-> AO, Start |-> 0, End |-> 18],
                 [Role |-> AC, Start |-> 18, End |-> 58],
                 [Role |-> MX, Start |-> 58, End |-> 78] >>
        /\ compute_time_fines(1) = 3300
        /\ RowCost(0) = 800
    /\ C4_JustDone =>
        /\ TeamCost = 800
        /\ round = 2
        /\ time_fines_kpi = 3300

\* the scenario, completed by Airline Control
C4_Witness == C4_JustDone /\ detours = 0

\* C5: a submission for a role that already has a decision in the active
\* round is rejected, and a rejected submission leaves every record, the round
\* pointer and every board as they were; no submission changes the decision,
\* duration, cost or note of a record that holds a decision.
C5_Resubmit ==
    [][ /\ \A role \in RoleSet : \A choice \in option_labels(role) :
            (decided(role, round - 1) /\ submit_decision(role, choice)) =>
                /\ last' = [op |-> "submit", ok |-> FALSE]
                /\ UNCHANGED <<data, timeline, round, events>>
        /\ last'.op = "submit" =>
            \A r \in RoleSet : \A idx \in Rows :
                decided(r, idx) => data'[r][idx] = data[r][idx]
        /\ (last'.op = "submit" /\ ~last'.ok) =>
            UNCHANGED <<data, timeline, round, events>> ]_vars

\* Aircraft Maintenance has been turned away in a round that the two others
\* have not yet decided
C5_Witness ==
    /\ last = [op |-> "submit", ok |-> FALSE]
    /\ role_pick = MX
    /\ decided(MX, round - 1)
    /\ ~decided(AO, round - 1)
    /\ round = 2

\* C6: Reset can be pressed in every state, and right after it every record
\* is undecided with duration 0, cost 0 and an empty note, no round has a
\* board, the round pointer is 1 and the event sequence holds ROUNDS pairwise
\* distinct cards of the deck.
C6_Reset ==
    /\ ENABLED ResetGame
    /\ last.op = "reset" =>
        /\ \A r \in RoleSet : \A idx \in Rows :
            /\ data[r][idx].Decision = "-"
            /\ data[r][idx].Duration = 0
            /\ data[r][idx].Cost = 0
            /\ data[r][idx].Notes = ""
        /\ \A idx \in Rows : timeline[idx] = None
        /\ round = 1
        /\ DOMAIN events = Rows
        /\ Cardinality(Rows) = ROUNDS
        /\ \A idx \in Rows :
            \E k \in 1..Len(EVENT_CARDS) : events[idx] = EVENT_CARDS[k]
        /\ \A i, j \in Rows : i # j => events[i] # events[j]

C6_Witness == last.op = "reset"

\* C7: game over implies that all three roles have a decision in round ROUNDS.
C7_GameOverOnlyAfterLast ==
    finished => \A r \in RoleSet : data[r][ROUNDS - 1].Decision # "-"

C7_Witness == finished /\ last = [op |-> "submit", ok |-> TRUE]

\* C8: whenever the round pointer is ROUNDS and all three roles have a decision
\* in round ROUNDS, the game is over.
C8_GameOverAtLast ==
    (round = ROUNDS /\ complete(ROUNDS - 1)) => finished

\* C9: an accepted submission in round idx+1 sets the round pointer to
\* min(idx + 2, ROUNDS) and computes the board of that round, and of no other,
\* if all three roles then have a decision there; otherwise it leaves the
\* round pointer and every board as they were.
C9_Advance ==
    [][ (last'.op = "submit" /\ last'.ok) =>
            LET idx == round - 1
            IN  IF \A r \in RoleSet : data'[r][idx].Decision # "-"
                THEN /\ round' = Min(idx + 2, ROUNDS)
                     /\ timeline[idx] = None
                     /\ timeline'[idx] # None
                     /\ timeline'[idx][3].End =
                            data'[AO][idx].Duration + data'[AC][idx].Duration
                              + data'[MX][idx].Duration + events[idx][2]
                     /\ \A j \in Rows \ {idx} : timeline'[j] = timeline[j]
                ELSE /\ round' = round
                     /\ timeline' = timeline ]_vars

\* the third decision of round 2 has just been accepted
C9_Witness ==
    /\ last = [op |-> "submit", ok |-> TRUE]
    /\ round = 3
    /\ complete(1)
    /\ timeline[1] # None
    /\ \A idx \in 2..(ROUNDS - 1) : blank(idx)

\* C10: a submission with an unknown role, or with a choice that is not one
\* of the role's two options, changes no record, no board and not the round
\* pointer.
C10_InvalidRejected ==
    [][ \A role \in AnyRole : \A choice \in AnyChoice :
            ( /\ submit_decision(role, choice)
              /\ (role \notin RoleSet \/ choice \notin option_labels(role)) )
            => UNCHANGED <<data, timeline, round>> ]_vars

Shared == "AODB: Shared Stand (free - 50 % risk +5-20 min)"
Quick == "CRS: Quick Crew Swap (30 min - 40 % risk +5-25 min)"
Defer == "MEL: Defer (0 min - 40 % risk $1,000)"

\* C11 as claimed: Shared records cost 0 and duration 10 or 20, Quick records
\* cost 0 and duration 30 or 45, Defer records duration 0 and cost 0 or 1000.
C11_FixedIncrement ==
    \A idx \in Rows :
        /\ data[AO][idx].Decision = Shared =>
            data[AO][idx].Cost = 0 /\ data[AO][idx].Duration \in {10, 20}
        /\ data[AC][idx].Decision = Quick =>
            data[AC][idx].Cost = 0 /\ data[AC][idx].Duration \in {30, 45}
        /\ data[MX][idx].Decision = Defer =>
            data[MX][idx].Duration = 0 /\ data[MX][idx].Cost \in {0, 1000}

\* C11 as amended: the outcome of a risky choice is the baseline or the
\* baseline plus a drawn increment: Shared records cost 0 and duration 10 or
\* 10 + e with e in 5..20, Quick records cost 0 and duration 30 or 30 + e with
\* e in 5..25, Defer records duration 0 and cost 0 or 1000.
C11_RangedIncrement ==
    \A idx \in Rows :
        /\ data[AO][idx].Decision = Shared =>
            /\ data[AO][idx].Cost = 0
            /\ data[AO][idx].Duration \in {10} \cup {10 + e : e \in 5..20}
        /\ data[AC][idx].Decision = Quick =>
            /\ data[AC][idx].Cost = 0
            /\ data[AC][idx].Duration \in {30} \cup {30 + e : e \in 5..25}
        /\ data[MX][idx].Decision = Defer =>
            data[MX][idx].Duration = 0 /\ data[MX][idx].Cost \in {0, 1000}

\* a Quick swap whose relief crew was late
C11_Witness ==
    \E idx \in Rows :
        data[AC][idx].Decision = Quick /\ data[AC][idx].Duration > CREW_NB

\* C12: Next Flight can be pressed whatever the decisions of the active round
\* are (in the model: while the budget MaxDetours lasts); it sets the round
\* pointer to min(pointer + 1, ROUNDS) and leaves every record, every board,
\* the event sequence and the reported time fines as they were.
C12_ForceAdvance ==
    /\ [](detours < MaxDetours => ENABLED NextFlight)
    /\ [][ last'.op = "next" =>
            /\ round' = Min(round + 1, ROUNDS)
            /\ UNCHANGED <<data, timeline, events>>
            /\ time_fines_kpi' = time_fines_kpi ]_vars

\* Next Flight has been pressed in round 1 with one decision recorded
C12_Witness ==
    /\ last.op = "next"
    /\ round = 2
    /\ decided(AO, 0)
    /\ ~complete(0)
    /\ timeline[0] = None

\* C13: no step other than Reset changes the decision, duration, cost or
\* note of a record that holds a decision; in particular only Reset returns a
\* record to undecided.
C13_NoUndecide ==
    [][ last'.op # "reset" =>
            \A r \in RoleSet : \A idx \in Rows :
                decided(r, idx) =>
                    /\ data'[r][idx].Decision = data[r][idx].Decision
                    /\ data'[r][idx].Duration = data[r][idx].Duration
                    /\ data'[r][idx].Cost = data[r][idx].Cost
                    /\ data'[r][idx].Notes = data[r][idx].Notes ]_vars

\* round 1 is complete, Aircraft Maintenance has decided in round 2, and Next
\* Flight has then left round 2 behind
C13_Witness ==
    /\ last.op = "next"
    /\ round = 3
    /\ complete(0)
    /\ decided(MX, 1)
    /\ ~complete(1)

\* C14: a round has a board if and only if all three roles have a decision
\* recorded for it.
C14_BoardIffComplete ==
    \A idx \in Rows :
        timeline[idx] # None <=>
            \A r \in RoleSet : data[r][idx].Decision # "-"

\* round 1 has its board, round 2 is partially decided and has none
C14_Witness ==
    /\ timeline[0] # None
    /\ complete(0)
    /\ round = 2
    /\ decided(AC, 1)
    /\ ~decided(AO, 1)
    /\ timeline[1] = None

\* the fine of a round: that of its board, 0 while it has none
FineOf(idx) ==
    IF timeline[idx] = None THEN 0 ELSE ClaimedFine(BoardEnd(timeline[idx]))

\* the fines of all rounds that have a board, each once
BoardFines == SumTo([idx \in Rows |-> FineOf(idx)], ROUNDS - 1)

\* the part of C15 about the boards: no step other than Reset changes a board
\* that is present, and a decision is only ever accepted in a round that has
\* no board yet, so no board is computed twice.
C15_ComputedOnce ==
    [][ /\ last'.op # "reset" =>
            \A idx \in Rows :
                timeline[idx] # None => timeline'[idx] = timeline[idx]
        /\ (last'.op = "submit" /\ last'.ok) =>
            timeline[round - 1] = None ]_vars

\* C15: between two resets a board, once present, never changes and is never
\* computed again, and once round ROUNDS is complete the reported time fines
\* count the fine of every round that has a board exactly once.
C15_OncePerRound ==
    /\ C15_ComputedOnce
    /\ []((round = ROUNDS /\ complete(ROUNDS - 1)) =>
            time_fines_kpi = BoardFines)

\* C16: the reported Time Fines equal the sum of the fines of every round that
\* has a board.
C16_KpiSumsBoards == time_fines_kpi = BoardFines

\* C17: in every state a record holds no decision if and only if its
\* duration is 0, its cost is 0 and its note is empty.
C17_UndecidedIffBlank ==
    \A r \in RoleSet : \A idx \in Rows :
        data[r][idx].Decision = "-" <=>
            /\ data[r][idx].Duration = 0
            /\ data[r][idx].Cost = 0
            /\ data[r][idx].Notes = ""

\* a deferral without penalty: duration 0 and cost 0, but a note
C17_Witness ==
    \E idx \in Rows :
        /\ data[MX][idx].Decision = Defer
        /\ data[MX][idx].Duration = 0
        /\ data[MX][idx].Cost = 0
        /\ data[MX][idx].Notes = "Deferred"

\* C18: the round pointer lies in 1..ROUNDS and every round after it has
\* three undecided roles and no board; no step other than Reset lowers the
\* pointer, and an accepted submission writes into the active round only.
C18_ActiveRoundOnly ==
    /\ [](/\ round \in 1..ROUNDS
         /\ \A idx \in Rows : idx + 1 > round =>
                /\ \A r \in RoleSet : data[r][idx].Decision = "-"
                /\ timeline[idx] = None)
    /\ [][ /\ last'.op # "reset" => round' >= round
           /\ (last'.op = "submit" /\ last'.ok) =>
                \A r \in RoleSet : \A idx \in Rows \ {round - 1} :
                    data'[r][idx] = data[r][idx] ]_vars

\* the pointer is at round 3, which one role has decided; rounds 4 and 5 are
\* untouched
C18_Witness ==
    /\ round = 3
    /\ last = [op |-> "submit", ok |-> TRUE]
    /\ decided(AC, 2)
    /\ ~complete(2)
    /\ blank(3)
    /\ blank(4)

\* the decisions on record, one per accepted submission
DecidedCount ==
    Cardinality({rx \in RoleSet \X Rows : decided(rx[1], rx[2])})

\* the pointer has passed a round that lacks a decision
Skipped == \E idx \in Rows : idx + 1 < round /\ ~complete(idx)

\* C19: if every role that has no decision in the active round eventually
\* submits, then either Next Flight or Reset is pressed at some time or the
\* game is eventually over; game over holds 3 * ROUNDS decisions, three and a
\* board in every round; and once the pointer has passed a round that lacks a
\* decision, the game is not over and stays so until Reset.
C19_Termination ==
    /\ <>(finished \/ last.op \in {"next", "reset"})
    /\ [](finished =>
            /\ DecidedCount = 3 * ROUNDS
            /\ \A idx \in Rows : complete(idx) /\ timeline[idx] # None)
    /\ [](Skipped => ~finished)
    /\ [][ (Skipped /\ last'.op # "reset") => (Skipped' /\ ~finished') ]_vars

\* game over in a game without any Next Flight and without a risky pick
C19_Witness ==
    /\ finished
    /\ detours = 0
    /\ DecidedCount = 3 * ROUNDS

\* ---------------------------------------------------------------------
\* final summary table, lines 228-235 (rendered only when finished)

\* a row in which the delay fine is shared out between the three roles
summary_row_split(r) ==
    LET imm == SumTo([idx \in Rows |-> data[r][idx].Cost], ROUNDS - 1)
        tf  == SumTo([i \in Rows |->
                        Max(BoardEnd(timeline[i]) - TARGET_MIN, 0) * FINE_PER_MIN],
                     ROUNDS - 1) \div 3
    IN  [Role |-> r, Immediate |-> imm, TimeFines |-> tf, Total |-> imm + tf]

\* rows.append((r, imm, tf, imm+tf)), lines 230-233
summary_row(r) ==
    LET imm == SumTo([idx \in Rows |-> data[r][idx].Cost], ROUNDS - 1)
        tf  == SumTo([i \in Rows |->
                        Max(BoardEnd(timeline[i]) - TARGET_MIN, 0) * FINE_PER_MIN],
                     ROUNDS - 1)
    IN  [Role |-> r, Immediate |-> imm, TimeFines |-> tf, Total |-> imm + tf]

\* summary.sort_values("Total"), lines 234-235: the tables the sort can
\* produce, one row per role in non-decreasing order of Total (the order of
\* rows with equal totals is left to the sort)
summary ==
    { tbl \in [1..3 -> {summary_row(r) : r \in RoleSet}] :
        /\ \A r \in RoleSet : \E k \in 1..3 : tbl[k].Role = r
        /\ \A k \in 1..2 : tbl[k].Total <= tbl[k + 1].Total }

\* the team's delay fine as the claim states it
TeamFine ==
    SumTo([i \in Rows |-> ClaimedFine(BoardEnd(timeline[i]))], ROUNDS - 1)

\* C20: at game over every row of the final summary carries the whole team
\* fine as its Time Fines (the same amount for the three roles), its Total is
\* the role's own summed direct cost plus that whole amount, and the three
\* Time Fines add up to three times the team fine.
C20_FullCharge ==
    finished =>
        /\ summary # {}
        /\ \A tbl \in summary :
            /\ \A k \in 1..3 :
                /\ tbl[k].TimeFines = TeamFine
                /\ tbl[k].Immediate =
                     SumTo([idx \in Rows |-> data[tbl[k].Role][idx].Cost],
                           ROUNDS - 1)
                /\ tbl[k].Total = tbl[k].Immediate + TeamFine
            /\ tbl[1].TimeFines + tbl[2].TimeFines + tbl[3].TimeFines
                 = 3 * TeamFine
            /\ {tbl[k].Role : k \in 1..3} = RoleSet

\* game over with a positive team fine and roles whose direct costs differ
C20_Witness ==
    /\ finished
    /\ TeamFine > 0
    /\ \E r, s \in RoleSet : summary_row(r).Immediate # summary_row(s).Immediate

====
